---- MODULE Spec2Model ----
(***************************************************************************)
(* The mock financial API service of the dashboard (services/apiService):  *)
(* the rate limiter, the account ledger, the transaction log, the transfer *)
(* engine and the invoice generator; and the authentication context        *)
(* (contexts/AuthContext) with the pages that call it: the session kept in *)
(* localStorage, login, register, logout and the subscription update.      *)
(*                                                                         *)
(* Money is counted in mills (1/1000 of a dollar) so that amounts below    *)
(* one cent, which the number type of the code admits, can be written.     *)
(* Time is counted in milliseconds, as Date.now() does.                    *)
(***************************************************************************)
EXTENDS Integers, Sequences, FiniteSets, TLC

VARIABLES
    now,               \* the wall clock, Date.now()
    requestCount,      \* ApiService.requestCount
    lastRequestTime,   \* ApiService.lastRequestTime
    rateLimitReset,    \* ApiService.rateLimitReset
    mockAccounts,      \* the ledger: account id -> [name, balance]
    mockTransactions,  \* the transaction log, index 1 is the front
    pending,           \* calls suspended in their simulated delay, in timer order of registration
    lastResponse,      \* the outcome of the call that settled last (resolved value or thrown error)
    invocations,       \* history: number of ApiService calls made so far
    callTimes,         \* history: the times of the most recent calls
    user,              \* AuthProvider's state user: a User or Null
    loading,           \* AuthProvider's state loading
    localStorage,      \* the browser's localStorage: key -> stored string
    toast,             \* the toast shown last
    location,          \* the router's current path
    mounted,           \* AuthProvider's mount effect has run
    registered,        \* history: the emails that register accepted
    course             \* history: the latest logins, logouts and subscription updates that took effect

vars == <<now, requestCount, lastRequestTime, rateLimitReset, mockAccounts,
          mockTransactions, pending, lastResponse, invocations, callTimes,
          user, loading, localStorage, toast, location, mounted, registered,
          course>>

limiter == <<requestCount, lastRequestTime, rateLimitReset>>
ledger == <<mockAccounts, mockTransactions>>
auth == <<user, loading, localStorage, toast, location, mounted>>

-----------------------------------------------------------------------------
(* Program constants *)

\* checkRateLimit: now - lastRequestTime > 60000
Window == 60000
\* checkRateLimit: requestCount > 10
Limit == 10
\* simulated delays of the four operations, in ms
BalanceDelay == 800
TransactionsDelay == 600
TransferDelay == 1000
InvoiceDelay == 1200
\* one calendar day in ms (Date.setDate arithmetic)
DayMs == 86400000
\* generateInvoice: dueDate.setDate(dueDate.getDate() + 15)
DueDays == 15
\* one cent in mills; toFixed(2) rounds to a multiple of it
Cent == 10

\* seeded balances, in mills
CheckingSeed == 5245750
SavingsSeed == 12735400

AccountIds == {"acc-1", "acc-2"}

SeedAccounts ==
    [id \in AccountIds |->
        IF id = "acc-1"
        THEN [name |-> "Checking Account", balance |-> CheckingSeed]
        ELSE [name |-> "Savings Account", balance |-> SavingsSeed]]

-----------------------------------------------------------------------------
(* Bounds of the model *)

\* Date.now() when the module is loaded. Any real value is far above Window;
\* the model starts just above it so that times fit the checker's integers.
StartTime == 100000
\* the clock advances at most this far beyond StartTime (ledger specifications)
MaxElapsed == 2000
\* the clock advances at most this far beyond StartTime (rate-limiter specification)
MaxElapsedRate == 60001
\* total number of ApiService calls in a run (ledger specifications)
MaxCalls == 3
\* total number of ApiService calls in a run (rate-limiter specification)
MaxCallsRate == 11
\* calls suspended at the same time (ledger specifications)
MaxInFlight == 2
\* calls suspended at the same time (rate-limiter specification)
MaxInFlightRate == 1
\* transfers that pass validation in a run
MaxTransfers == 2
\* number of seeded transactions (50 in the code)
SeedCount == 2

\* arguments handed to transferFunds: <<fromAccountId, toAccountId, amount>>,
\* amounts in mills (-20000.00, 0, 0.005, 100.00, 5000.00, 10000.00); "acc-9" is
\* no account
TransferInputs ==
    { <<"acc-1", "acc-2", -20000000>>, <<"acc-1", "acc-2", 0>>, <<"acc-1", "acc-2", 5>>,
      <<"acc-1", "acc-2", 100000>>, <<"acc-1", "acc-2", 5000000>>,
      <<"acc-1", "acc-2", 10000000>>,
      <<"acc-2", "acc-1", 100000>>, <<"acc-1", "acc-1", 100000>>,
      <<"acc-9", "acc-2", 100000>>, <<"acc-1", "acc-9", 100000>> }
PositiveTransferInputs == {a \in TransferInputs : a[3] > 0}
\* the transfers of the rate-limiter specification
RateTransferInputs ==
    { <<"acc-1", "acc-2", 100000>>, <<"acc-1", "acc-2", 10000000>>,
      <<"acc-9", "acc-2", 100000>> }
\* clock steps of the ledger specifications and of the rate-limiter specification
TickSteps == {1000}
TickStepsRate == {30000, 30001}
\* the clock advances at most this far beyond StartTime (authentication specification)
MaxElapsedAuth == 3000
\* logins, registrations and subscription requests suspended at the same time
MaxInFlightAuth == 2
\* <<email, password>> handed to login
LoginInputs ==
    { <<"demo@example.com", "password">>, <<"admin@example.com", "password">>,
      <<"demo@example.com", "secret1">>, <<"new@example.com", "secret1">> }
\* <<email, name, password>> handed to register
RegisterInputs ==
    { <<"new@example.com", "New User", "secret1">>,
      <<"admin@example.com", "Admin Two", "secret1">> }
\* the plan asked for on the Pricing page
TierInputs == {"basic"}
\* <<page, pageSize>> asked of getTransactions
PageInputs == {<<1, 2>>}
\* <<startDate, endDate>> handed to generateInvoice (day numbers)
RangeInputs == {<<1, 2>>}
\* total number of ApiService calls in a run (query specification)
MaxCallsQuery == 2
\* the pages, ranges and transfers of the query specification
MaxPage == 2
MaxPageSize == 3
WidePageInputs == (1..MaxPage) \X (1..MaxPageSize)
WideRangeInputs == {<<1, 2>>, <<2, 2>>, <<2, 1>>}
QueryTransferInputs == {<<"acc-1", "acc-2", 100000>>}
\* sampled results of the three Math.random() calls in generateInvoice
QtyDraws == {<<100, 5, 0>>}

\* Math.random() returns a value of [0, 1): the draw r stands for r / RandomScale
RandomScale == 1000
RandomDraws == {0, 499, 500, RandomScale - 1}

\* a session from login over subscription and logout to the next login
MaxElapsedRelogin == 4000
ReloginInputs == {<<"demo@example.com", "password">>, <<"admin@example.com", "password">>}

\* the service and the authentication context side by side
MaxCallsWhole == 1
WholeLoginInputs == {<<"demo@example.com", "password">>}
WholeRegisterInputs == {<<"new@example.com", "New User", "secret1">>}

\* what a caller of getBalance does with the list it was given
CallerTransferInputs == {<<"acc-1", "acc-2", 100000>>}
CallerBalances == {0}

\* transfers of a round amount, of the whole source balance and of an amount
\* with more than two decimals
ResultTransferInputs ==
    {<<"acc-1", "acc-2", 100000>>, <<"acc-1", "acc-2", CheckingSeed>>,
     <<"acc-2", "acc-1", 1236>>}

-----------------------------------------------------------------------------
(* Helpers *)

Abs(x) == IF x < 0 THEN -x ELSE x

\* parseFloat(x.toFixed(2)) for x in mills: the nearest whole cent.  A value
\* exactly half way between two cents has no exact binary representation in
\* general, so the double that stands for it lies on either side and either
\* neighbour can result.
ToFixed2(x) ==
    LET a == Abs(x)
        lo == (a \div Cent) * Cent
        r == a % Cent
        mags == IF 2 * r < Cent THEN {lo}
                ELSE IF 2 * r > Cent THEN {lo + Cent}
                ELSE {lo, lo + Cent}
    IN {IF x < 0 THEN -m ELSE m : m \in mags}

\* the last n elements of s
LastN(s, n) == IF Len(s) <= n THEN s ELSE SubSeq(s, Len(s) - n + 1, Len(s))

\* Array.prototype.slice(start, end) on a 1-indexed sequence
Slice(s, start, end) ==
    LET lo == IF start < Len(s) THEN start ELSE Len(s)
        hi == IF end < Len(s) THEN end ELSE Len(s)
    IN IF lo >= hi THEN <<>> ELSE SubSeq(s, lo + 1, hi)

\* a variant of unshift that adds at the end, as push does
Push(s, e) == s \o <<e>>

\* Array.prototype.unshift
Unshift(s, e) == <<e>> \o s

-----------------------------------------------------------------------------
(* Seeding: generateTransactions and the module-level constants *)

\* one loop iteration's random draws in generateTransactions
DrawInputs ==
    { [offset |-> 0, type |-> "debit", amount |-> 10000, status |-> "completed",
       category |-> "Groceries", description |-> "Payment to merchant"],
      [offset |-> 1, type |-> "credit", amount |-> 510000, status |-> "pending",
       category |-> "Travel", description |-> "Direct deposit"] }

\* the seedings the specifications start from: the draws of the loop, in order
SeedInputs == {[i \in 1..SeedCount |-> CHOOSE d \in DrawInputs : d.offset = i % 2]}

\* every sequence of SeedCount draws
TiedSeedInputs == [1..SeedCount -> DrawInputs]

\* array.sort((a, b) => date(b) - date(a)): stable, newest first
RECURSIVE SortNewestFirst(_)
SortNewestFirst(s) ==
    IF s = <<>> THEN <<>>
    ELSE LET h == Head(s)
             rest == SortNewestFirst(Tail(s))
             older == {k \in 1..Len(rest) : rest[k].date <= h.date}
             at == IF older = {} THEN Len(rest) + 1
                   ELSE CHOOSE k \in older : \A j \in older : k <= j
         IN SubSeq(rest, 1, at - 1) \o <<h>> \o SubSeq(rest, at, Len(rest))

\* generateTransactions(count) at time t with the given draws
GenerateTransactions(draws, t) ==
    SortNewestFirst(
        [i \in 1..Len(draws) |->
            [id |-> [n |-> i, leg |-> ""],
             date |-> t - draws[i].offset * DayMs,
             type |-> draws[i].type,
             amount |-> draws[i].amount,
             description |-> [text |-> draws[i].description, party |-> ""],
             status |-> draws[i].status,
             category |-> draws[i].category]])

-----------------------------------------------------------------------------
(* The rate limiter *)

\* a variant of checkRateLimit that resets at exactly one minute (>= for >)
CheckRateLimitInclusive ==
    LET reset == now - lastRequestTime >= Window
        count == (IF reset THEN 0 ELSE requestCount) + 1
    IN [requestCount |-> count,
        lastRequestTime |-> now,
        rateLimitReset |-> IF reset THEN now + Window ELSE rateLimitReset,
        admitted |-> ~(count > Limit)]

\* a variant of checkRateLimit that resets when the window that was opened at
\* the last reset has ended
CheckRateLimitFromWindowStart ==
    LET reset == now > rateLimitReset
        count == (IF reset THEN 0 ELSE requestCount) + 1
    IN [requestCount |-> count,
        lastRequestTime |-> now,
        rateLimitReset |-> IF reset THEN now + Window ELSE rateLimitReset,
        admitted |-> ~(count > Limit)]

\* checkRateLimit(): the new limiter fields and whether the call is admitted
CheckRateLimit ==
    LET reset == now - lastRequestTime > Window
        count == (IF reset THEN 0 ELSE requestCount) + 1
    IN [requestCount |-> count,
        lastRequestTime |-> now,
        rateLimitReset |-> IF reset THEN now + Window ELSE rateLimitReset,
        admitted |-> ~(count > Limit)]

SetLimiter(r) ==
    /\ requestCount' = r.requestCount
    /\ lastRequestTime' = r.lastRequestTime
    /\ rateLimitReset' = r.rateLimitReset

-----------------------------------------------------------------------------
(* Calls and their outcomes *)

NoData == [none |-> TRUE]

Call(op, from, to, amount, page, pageSize, delay) ==
    [op |-> op, from |-> from, to |-> to,
     amount |-> amount, page |-> page, pageSize |-> pageSize, due |-> now + delay]

\* a rejected promise: throw new Error(error)
Failure(c, error) ==
    [op |-> c.op, ok |-> FALSE, error |-> error,
     from |-> c.from, to |-> c.to, amount |-> c.amount,
     page |-> c.page, pageSize |-> c.pageSize, hasData |-> FALSE, data |-> NoData]

\* a resolved promise
Success(c, data) ==
    [op |-> c.op, ok |-> TRUE, error |-> "",
     from |-> c.from, to |-> c.to, amount |-> c.amount,
     page |-> c.page, pageSize |-> c.pageSize, hasData |-> TRUE, data |-> data]

\* no call has settled yet
NoResponse ==
    [op |-> "none", ok |-> FALSE, error |-> "",
     from |-> "", to |-> "", amount |-> 0, page |-> 0, pageSize |-> 0,
     hasData |-> FALSE, data |-> NoData]

RateLimitError == "Rate limit exceeded"
NotFoundError == "One or both accounts not found"
InsufficientError == "Insufficient funds"

\* the timer queue: the suspended call at position i resumes next when its
\* delay has elapsed and no other timer is due earlier (equal times resume in
\* the order they were set)
Resumable(i) ==
    /\ i \in 1..Len(pending)
    /\ pending[i].due <= now
    /\ \A j \in 1..Len(pending) :
          j # i => \/ pending[j].due > pending[i].due
                   \/ (pending[j].due = pending[i].due /\ j > i)

Remove(s, i) == SubSeq(s, 1, i - 1) \o SubSeq(s, i + 1, Len(s))

\* the part of every operation up to its await: the rate-limit check, then
\* either the thrown error or the suspension
Invoke(c) ==
    LET r == CheckRateLimit
    IN /\ SetLimiter(r)
       /\ IF r.admitted
          THEN /\ pending' = Append(pending, c)
               /\ UNCHANGED lastResponse
          ELSE /\ lastResponse' = Failure(c, RateLimitError)
               /\ UNCHANGED pending
       /\ UNCHANGED <<now, ledger, auth>>

-----------------------------------------------------------------------------
(* getBalance *)

GetBalance == Invoke(Call("getBalance", "", "", 0, 0, 0, BalanceDelay))

\* the order of the Account objects in the array mockAccounts
AccountOrder == <<"acc-1", "acc-2">>

\* a reference to an Account object of the ledger. The objects are created
\* once, in the array literal, and never replaced: the id names the object
Ref(id) == [ref |-> id]

\* [...mockAccounts]: a new array whose elements are the ledger's own objects
SpreadAccounts == [k \in 1..Len(AccountOrder) |-> Ref(AccountOrder[k])]

\* after the delay: return [...mockAccounts]
GetBalanceResume(i) ==
    /\ Resumable(i)
    /\ pending[i].op = "getBalance"
    /\ lastResponse' = Success(pending[i], SpreadAccounts)
    /\ pending' = Remove(pending, i)
    /\ UNCHANGED <<now, limiter, ledger, auth>>

\* a caller assigns to the balance of the k-th Account of the list that
\* getBalance returned to it: accounts[k].balance = balance
SetReturnedBalance(k, balance) ==
    /\ lastResponse.op = "getBalance"
    /\ lastResponse.ok
    /\ k \in 1..Len(lastResponse.data)
    /\ mockAccounts' =
          [mockAccounts EXCEPT ![lastResponse.data[k].ref].balance = balance]
    /\ UNCHANGED <<now, limiter, mockTransactions, pending, lastResponse, auth>>

\* a caller removes the last element of the list that getBalance returned to
\* it: accounts.pop()
PopReturned ==
    /\ lastResponse.op = "getBalance"
    /\ lastResponse.ok
    /\ Len(lastResponse.data) > 0
    /\ lastResponse' =
          [lastResponse EXCEPT !.data = SubSeq(@, 1, Len(@) - 1)]
    /\ UNCHANGED <<now, limiter, ledger, pending, auth>>

-----------------------------------------------------------------------------
(* getTransactions *)

GetTransactions(page, pageSize) ==
    Invoke(Call("getTransactions", "", "", 0, page, pageSize, TransactionsDelay))

\* a variant of the page that counts pages from zero
PageFromZero(page, pageSize) ==
    LET start == page * pageSize
        end == start + pageSize
    IN [data |-> Slice(mockTransactions, start, end), total |-> Len(mockTransactions)]

\* mockTransactions.slice(start, end) and the length of the log
Page(page, pageSize) ==
    LET start == (page - 1) * pageSize
        end == start + pageSize
    IN [data |-> Slice(mockTransactions, start, end), total |-> Len(mockTransactions)]

GetTransactionsResume(i) ==
    /\ Resumable(i)
    /\ pending[i].op = "getTransactions"
    /\ lastResponse' = Success(pending[i], Page(pending[i].page, pending[i].pageSize))
    /\ pending' = Remove(pending, i)
    /\ UNCHANGED <<now, limiter, ledger, auth>>

-----------------------------------------------------------------------------
(* generateInvoice *)

\* unit prices in mills: 0.01, 29.99, 0.5, 15
ApiUnitPrice == 10
PremiumUnitPrice == 29990
StorageUnitPrice == 500
SupportUnitPrice == 15000

\* parseFloat((quantity * unitPrice).toFixed(2))
ItemAmount(quantity, unitPrice) == CHOOSE m \in ToFixed2(quantity * unitPrice) : TRUE

InvoiceItem(description, quantity, unitPrice) ==
    [description |-> description, quantity |-> quantity, unitPrice |-> unitPrice,
     amount |-> ItemAmount(quantity, unitPrice)]

RECURSIVE SumAmounts(_)
SumAmounts(items) ==
    IF items = <<>> THEN 0 ELSE Head(items).amount + SumAmounts(Tail(items))

\* Math.floor(Math.random() * span) + base, for the draw r / RandomScale
RandomQuantityCeil(r, span, base) == (r * span + RandomScale - 1) \div RandomScale + base

RandomQuantity(r, span, base) == (r * span) \div RandomScale + base

\* the three random quantities of generateInvoice, from three draws
DrawQuantities(r1, r2, r3) ==
    << RandomQuantity(r1, 500, 100), RandomQuantity(r2, 20, 5), RandomQuantity(r3, 5, 0) >>

\* the module-level generateInvoice(startDate, endDate) with its three random
\* quantities; neither argument is read
MakeInvoice(startDate, endDate, apiQty, storageQty, supportQty) ==
    LET items == << InvoiceItem("API Calls - Basic Tier", apiQty, ApiUnitPrice),
                    InvoiceItem("Premium Features Access", 1, PremiumUnitPrice),
                    InvoiceItem("Data Storage (GB)", storageQty, StorageUnitPrice),
                    InvoiceItem("Support Requests", supportQty, SupportUnitPrice) >>
    IN [id |-> now, date |-> now, dueDate |-> now + DueDays * DayMs,
        items |-> items, total |-> SumAmounts(items), status |-> "pending"]

GenerateInvoice(startDate, endDate) ==
    Invoke(Call("generateInvoice", startDate, endDate, 0, 0, 0, InvoiceDelay))

GenerateInvoiceResume(i, apiQty, storageQty, supportQty) ==
    /\ Resumable(i)
    /\ pending[i].op = "generateInvoice"
    /\ lastResponse' = Success(pending[i],
            MakeInvoice(pending[i].from, pending[i].to, apiQty, storageQty, supportQty))
    /\ pending' = Remove(pending, i)
    /\ UNCHANGED <<now, limiter, ledger, auth>>

-----------------------------------------------------------------------------
(* transferFunds *)

\* the checks before the delay: "ok" or the message of the error thrown
ValidateTransfer(from, to, amount) ==
    IF from \notin DOMAIN mockAccounts \/ to \notin DOMAIN mockAccounts
    THEN NotFoundError
    ELSE IF mockAccounts[from].balance < amount
    THEN InsufficientError
    ELSE "ok"

\* transfers that passed validation so far: suspended ones and completed ones
TransfersStarted ==
    Cardinality({i \in 1..Len(pending) : pending[i].op = "transferFunds"})
    + Cardinality({k \in 1..Len(mockTransactions) : mockTransactions[k].id.leg = "debit"})

\* a variant of transferFunds that debits the source as soon as it is found,
\* before the remaining checks
TransferFundsDebitFirst(from, to, amount) ==
    LET r == CheckRateLimit
        c == Call("transferFunds", from, to, amount, 0, 0, TransferDelay)
        v == ValidateTransfer(from, to, amount)
    IN /\ SetLimiter(r)
       /\ IF ~r.admitted
          THEN /\ lastResponse' = Failure(c, RateLimitError)
               /\ UNCHANGED <<pending, mockAccounts>>
          ELSE /\ IF from \in DOMAIN mockAccounts
                  THEN mockAccounts' \in
                          {[mockAccounts EXCEPT ![from].balance = b] :
                              b \in ToFixed2(mockAccounts[from].balance - amount)}
                  ELSE UNCHANGED mockAccounts
               /\ IF v # "ok"
                  THEN lastResponse' = Failure(c, v) /\ UNCHANGED pending
                  ELSE pending' = Append(pending, c) /\ UNCHANGED lastResponse
       /\ UNCHANGED <<now, mockTransactions, auth>>

\* a variant of transferFunds that validates its arguments before it consults
\* the rate limiter
TransferFundsValidateFirst(from, to, amount) ==
    LET r == CheckRateLimit
        c == Call("transferFunds", from, to, amount, 0, 0, TransferDelay)
        v == ValidateTransfer(from, to, amount)
    IN /\ IF v # "ok"
          THEN /\ lastResponse' = Failure(c, v)
               /\ UNCHANGED <<pending, limiter>>
          ELSE /\ SetLimiter(r)
               /\ IF ~r.admitted
                  THEN lastResponse' = Failure(c, RateLimitError) /\ UNCHANGED pending
                  ELSE pending' = Append(pending, c) /\ UNCHANGED lastResponse
       /\ UNCHANGED <<now, ledger, auth>>

\* transferFunds up to its await
TransferFunds(from, to, amount) ==
    LET r == CheckRateLimit
        c == Call("transferFunds", from, to, amount, 0, 0, TransferDelay)
        v == ValidateTransfer(from, to, amount)
    IN /\ SetLimiter(r)
       /\ IF ~r.admitted
          THEN /\ lastResponse' = Failure(c, RateLimitError)
               /\ UNCHANGED pending
          ELSE IF v # "ok"
          THEN /\ lastResponse' = Failure(c, v)
               /\ UNCHANGED pending
          ELSE /\ pending' = Append(pending, c)
               /\ UNCHANGED lastResponse
       /\ UNCHANGED <<now, ledger, auth>>

\* fromAccount.balance = parseFloat((fromAccount.balance - amount).toFixed(2))
Debit(accounts, from, amount) ==
    {[accounts EXCEPT ![from].balance = b] : b \in ToFixed2(accounts[from].balance - amount)}

\* a variant of the credit that cuts the sum off after the second decimal
CreditTruncated(accounts, to, amount) ==
    {[accounts EXCEPT ![to].balance = ((accounts[to].balance + amount) \div Cent) * Cent]}

\* toAccount.balance = parseFloat((toAccount.balance + amount).toFixed(2))
Credit(accounts, to, amount) ==
    {[accounts EXCEPT ![to].balance = b] : b \in ToFixed2(accounts[to].balance + amount)}

\* the two records of a transfer; txDate and txId are both taken from the clock
DebitRecord(from, to, amount, t) ==
    [id |-> [n |-> t, leg |-> "debit"], date |-> t, type |-> "debit", amount |-> amount,
     description |-> [text |-> "Transfer to", party |-> mockAccounts[to].name],
     status |-> "completed", category |-> "Transfer"]

\* a variant of the credit record that names the destination account
CreditRecordOfDestination(from, to, amount, t) ==
    [id |-> [n |-> t, leg |-> "credit"], date |-> t, type |-> "credit", amount |-> amount,
     description |-> [text |-> "Transfer from", party |-> mockAccounts[to].name],
     status |-> "completed", category |-> "Transfer"]

CreditRecord(from, to, amount, t) ==
    [id |-> [n |-> t, leg |-> "credit"], date |-> t, type |-> "credit", amount |-> amount,
     description |-> [text |-> "Transfer from", party |-> mockAccounts[from].name],
     status |-> "completed", category |-> "Transfer"]

\* the result object of a successful transfer
TransferResult(from, to, amount) ==
    [success |-> TRUE,
     message |-> [amount |-> amount, from |-> mockAccounts[from].name,
                  to |-> mockAccounts[to].name]]

\* transferFunds after its await: both balance updates, the two records, the result
TransferFundsResume(i) ==
    /\ Resumable(i)
    /\ pending[i].op = "transferFunds"
    /\ LET c == pending[i]
       IN /\ \E debited \in Debit(mockAccounts, c.from, c.amount) :
                mockAccounts' \in Credit(debited, c.to, c.amount)
          /\ mockTransactions' =
                Unshift(Unshift(mockTransactions, DebitRecord(c.from, c.to, c.amount, now)),
                        CreditRecord(c.from, c.to, c.amount, now))
          /\ lastResponse' = Success(c, TransferResult(c.from, c.to, c.amount))
    /\ pending' = Remove(pending, i)
    /\ UNCHANGED <<now, limiter, auth>>

-----------------------------------------------------------------------------
(* The authentication context: data *)

\* simulated delays of login, register and the Pricing page's subscription request
LoginDelay == 1000
RegisterDelay == 1000
SubscribeDelay == 2000
\* updateSubscription: Date.now() + 30 * 24 * 60 * 60 * 1000
SubscriptionDays == 30

\* JavaScript's null
Null == [null |-> TRUE]

\* an ISO 8601 time: the day since the epoch and the time of day in ms
IsoTime(day, ms) == [day |-> day, ms |-> ms]

\* new Date(t + days * 24 * 60 * 60 * 1000).toISOString(); the sum is never
\* formed, since it leaves the checker's integers
ToISOString(t, days) == IsoTime(t \div DayMs + days, t % DayMs)

\* the fixed credential set; "2025-12-31T23:59:59Z" is day 20453, 23:59:59
MOCK_USERS ==
    << [id |-> "user-1", email |-> "demo@example.com", name |-> "Demo User",
        password |-> "password", role |-> "user", isSubscribed |-> FALSE],
       [id |-> "admin-1", email |-> "admin@example.com", name |-> "Admin User",
        password |-> "password", role |-> "admin", isSubscribed |-> TRUE,
        subscriptionTier |-> "enterprise",
        subscriptionExpiresAt |-> IsoTime(20453, 86399000)] >>

\* the keys of the objects of this module, in the order their literals write them
ObjectKeys ==
    <<"id", "email", "name", "password", "role", "isSubscribed",
      "subscriptionTier", "subscriptionExpiresAt">>

\* the members of a serialised object: a boolean is written as a bare
\* literal, a string between quotes
JSONMember(k, v) ==
    IF k = "isSubscribed"
    THEN <<k, [literal |-> IF v THEN "true" ELSE "false"]>>
    ELSE <<k, [quoted |-> v]>>

RECURSIVE OwnKeys(_, _)
OwnKeys(o, keys) ==
    IF keys = <<>> THEN <<>>
    ELSE IF Head(keys) \in DOMAIN o
    THEN <<Head(keys)>> \o OwnKeys(o, Tail(keys))
    ELSE OwnKeys(o, Tail(keys))

\* JSON.stringify(o): the members of o in key order
JSONStringify(o) ==
    LET keys == OwnKeys(o, ObjectKeys)
    IN [i \in 1..Len(keys) |-> JSONMember(keys[i], o[keys[i]])]

\* JSON.parse(text)
JSONParse(text) ==
    [k \in {text[i][1] : i \in 1..Len(text)} |->
        LET v == text[CHOOSE i \in 1..Len(text) : text[i][1] = k][2]
        IN IF "literal" \in DOMAIN v THEN v.literal = "true" ELSE v.quoted]

\* btoa(text): opaque, never decoded
Btoa(text) == [base64 |-> text]

TokenKey == "fintech_token"
UserKey == "fintech_user"

\* localStorage.setItem / removeItem on a store
SetItem(store, k, v) ==
    [x \in DOMAIN store \cup {k} |-> IF x = k THEN v ELSE store[x]]
RemoveItem(store, k) == [x \in DOMAIN store \ {k} |-> store[x]]
\* localStorage.getItem(k) is not null
HasItem(store, k) == k \in DOMAIN store

\* the empty localStorage
EmptyStore == [x \in {} |-> Null]

\* toast({title, description, variant})
Toast(title, description, variant) ==
    [title |-> title, description |-> description, variant |-> variant]
NoToast == Toast("", "", "")

\* a suspended login, register or subscription request; seen is the user of
\* the render whose updateSubscription the request holds
AuthCall(op, email, name, password, tier, seen, delay) ==
    [op |-> op, email |-> email, name |-> name, password |-> password,
     tier |-> tier, seen |-> seen, due |-> now + delay]

-----------------------------------------------------------------------------
(* The authentication context: operations *)

\* checkToken(): !!localStorage.getItem("fintech_token")
CheckToken == HasItem(localStorage, TokenKey)

\* what a route element renders
Spinner == [render |-> "spinner", to |-> ""]
Navigate(to) == [render |-> "navigate", to |-> to]
Children == [render |-> "children", to |-> ""]

\* user?.isSubscribed and user?.role
IsSubscribed(u) == u # Null /\ u.isSubscribed
RoleOf(u) == IF u = Null THEN "" ELSE u.role

\* as ProtectedRoute, with the subscription looked at before the token
ProtectedRouteSubscriptionFirst(isLoading, hasToken, u, requireSubscription, adminOnly) ==
    IF isLoading THEN Spinner
    ELSE IF requireSubscription /\ ~IsSubscribed(u) THEN Navigate("/pricing")
    ELSE IF ~hasToken THEN Navigate("/login")
    ELSE IF adminOnly /\ RoleOf(u) # "admin" THEN Navigate("/dashboard")
    ELSE Children

\* ProtectedRoute, from what useAuth() gives it: loading, checkToken() and user
ProtectedRoute(isLoading, hasToken, u, requireSubscription, adminOnly) ==
    IF isLoading THEN Spinner
    ELSE IF ~hasToken THEN Navigate("/login")
    ELSE IF adminOnly /\ RoleOf(u) # "admin" THEN Navigate("/dashboard")
    ELSE IF requireSubscription /\ ~IsSubscribed(u) THEN Navigate("/pricing")
    ELSE Children

\* the routes of App whose element is a ProtectedRoute with the default
\* requireSubscription = true
GatedRoutes == {"/dashboard/balance", "/dashboard/transactions", "/dashboard/invoices"}

\* <Routes>: what App renders at a path in the current state
Render(path) ==
    IF path \in GatedRoutes
    THEN ProtectedRoute(loading, CheckToken, user, TRUE, FALSE)
    ELSE IF path = "/dashboard"
    THEN ProtectedRoute(loading, CheckToken, user, FALSE, FALSE)
    ELSE Children

\* the mount effect of AuthProvider: restore the user of a stored session
CheckAuth ==
    /\ ~mounted
    /\ user' = IF HasItem(localStorage, TokenKey) /\ HasItem(localStorage, UserKey)
               THEN JSONParse(localStorage[UserKey])
               ELSE user
    /\ loading' = FALSE
    /\ mounted' = TRUE
    /\ UNCHANGED <<now, limiter, ledger, pending, lastResponse, localStorage, toast, location>>

\* login up to its await
Login(email, password) ==
    /\ mounted
    /\ loading' = TRUE
    /\ pending' = Append(pending, AuthCall("login", email, "", password, "", Null, LoginDelay))
    /\ UNCHANGED <<now, limiter, ledger, lastResponse, user, localStorage, toast, location, mounted>>

\* a variant of the lookup that compares the email only
FindUserByEmail(email, password) ==
    LET hits == {k \in 1..Len(MOCK_USERS) : MOCK_USERS[k].email = email}
    IN IF hits = {} THEN Null
       ELSE MOCK_USERS[CHOOSE k \in hits : \A j \in hits : k <= j]

\* MOCK_USERS.find(u => u.email === email && u.password === password)
FindUser(email, password) ==
    LET hits == {k \in 1..Len(MOCK_USERS) :
                    MOCK_USERS[k].email = email /\ MOCK_USERS[k].password = password}
    IN IF hits = {} THEN Null
       ELSE MOCK_USERS[CHOOSE k \in hits : \A j \in hits : k <= j]

\* a variant that carries over what the store holds for the same user
WithoutPasswordStoredPlan(u) ==
    IF HasItem(localStorage, UserKey) /\ JSONParse(localStorage[UserKey]).id = u.id
    THEN JSONParse(localStorage[UserKey])
    ELSE [k \in DOMAIN u \ {"password"} |-> u[k]]

\* const { password: _, ...userWithoutPassword } = foundUser
WithoutPassword(u) == [k \in DOMAIN u \ {"password"} |-> u[k]]

\* the mock JWT
MockToken(u) == Btoa(JSONStringify([id |-> u.id, email |-> u.email, role |-> u.role]))

\* a variant of the two writes that stores the matched record as it is
StoreSessionWithPassword(store, u) ==
    SetItem(SetItem(store, TokenKey, MockToken(u)), UserKey, JSONStringify(u))

\* the two writes of a successful login
StoreSession(store, u) ==
    SetItem(SetItem(store, TokenKey, MockToken(u)),
            UserKey, JSONStringify(WithoutPassword(u)))

\* login after its await: the lookup, then the session or the failure toast
LoginResume(i) ==
    /\ Resumable(i)
    /\ pending[i].op = "login"
    /\ LET foundUser == FindUser(pending[i].email, pending[i].password)
       IN IF foundUser = Null
          THEN /\ toast' = Toast("Login failed", "Invalid credentials", "destructive")
               /\ UNCHANGED <<user, localStorage, location>>
          ELSE /\ localStorage' = StoreSession(localStorage, foundUser)
               /\ user' = WithoutPassword(foundUser)
               /\ toast' = Toast("Login successful", foundUser.name, "")
               /\ location' = "/dashboard"
    /\ loading' = FALSE
    /\ pending' = Remove(pending, i)
    /\ UNCHANGED <<now, limiter, ledger, lastResponse, mounted>>

\* register up to its await
Register(email, name, password) ==
    /\ mounted
    /\ loading' = TRUE
    /\ pending' = Append(pending,
                         AuthCall("register", email, name, password, "", Null, RegisterDelay))
    /\ UNCHANGED <<now, limiter, ledger, lastResponse, user, localStorage, toast, location, mounted>>

\* a variant of the check that looks at the email of the first record only
EmailTakenByFirst(email) == MOCK_USERS[1].email = email

\* MOCK_USERS.some(u => u.email === email)
EmailTaken(email) == \E k \in 1..Len(MOCK_USERS) : MOCK_USERS[k].email = email

\* register after its await: the uniqueness check, a toast and the redirect
RegisterResume(i) ==
    /\ Resumable(i)
    /\ pending[i].op = "register"
    /\ IF EmailTaken(pending[i].email)
       THEN /\ toast' = Toast("Registration failed", "Email already registered", "destructive")
            /\ UNCHANGED location
       ELSE /\ toast' = Toast("Registration successful",
                              "You can now log in with your credentials.", "")
            /\ location' = "/login"
    /\ loading' = FALSE
    /\ pending' = Remove(pending, i)
    /\ UNCHANGED <<now, limiter, ledger, lastResponse, user, localStorage, mounted>>

\* a variant of logout that removes the token and forgets the stored user
LogoutTokenOnly ==
    /\ mounted
    /\ localStorage' = RemoveItem(localStorage, TokenKey)
    /\ user' = Null
    /\ toast' = Toast("Logged out", "You have been successfully logged out.", "")
    /\ location' = "/login"
    /\ UNCHANGED <<now, limiter, ledger, pending, lastResponse, loading, mounted>>

\* logout
Logout ==
    /\ mounted
    /\ localStorage' = RemoveItem(RemoveItem(localStorage, TokenKey), UserKey)
    /\ user' = Null
    /\ toast' = Toast("Logged out", "You have been successfully logged out.", "")
    /\ location' = "/login"
    /\ UNCHANGED <<now, limiter, ledger, pending, lastResponse, loading, mounted>>

\* Pricing: user?.subscriptionTier === tier
IsCurrentPlan(tier) ==
    /\ "subscriptionTier" \in DOMAIN user
    /\ user.subscriptionTier = tier

\* Pricing.handleSubscribe up to its await.  The request holds the
\* updateSubscription of the render it was clicked in, and with it that
\* render's user.  (The page's own flag subscribing is lost whenever the page
\* is left and opened again, so requests can overlap.)
HandleSubscribe(tier) ==
    /\ mounted
    /\ ~IsCurrentPlan(tier)
    /\ pending' = Append(pending, AuthCall("subscribe", "", "", "", tier, user, SubscribeDelay))
    /\ UNCHANGED <<now, limiter, ledger, lastResponse, auth>>

\* { ...user, isSubscribed: true, subscriptionTier: tier, subscriptionExpiresAt: ... }
UpdatedUser(u, tier) ==
    [k \in DOMAIN u \cup {"isSubscribed", "subscriptionTier", "subscriptionExpiresAt"} |->
        IF k = "isSubscribed" THEN TRUE
        ELSE IF k = "subscriptionTier" THEN tier
        ELSE IF k = "subscriptionExpiresAt" THEN ToISOString(now, SubscriptionDays)
        ELSE u[k]]

\* updateSubscription(tier) of the render whose user was seen
UpdateSubscription(seen, tier) ==
    IF seen = Null
    THEN UNCHANGED <<user, localStorage, toast>>
    ELSE /\ user' = UpdatedUser(seen, tier)
         /\ localStorage' = SetItem(localStorage, UserKey, JSONStringify(UpdatedUser(seen, tier)))
         /\ toast' = Toast("Subscription updated", tier, "")

\* Pricing.handleSubscribe after its await
HandleSubscribeResume(i) ==
    /\ Resumable(i)
    /\ pending[i].op = "subscribe"
    /\ UpdateSubscription(pending[i].seen, pending[i].tier)
    /\ pending' = Remove(pending, i)
    /\ UNCHANGED <<now, limiter, ledger, lastResponse, loading, location, mounted>>

\* the page is loaded again: every module and component starts afresh, the
\* timers are gone, localStorage and the address stay
Restart ==
    /\ user' = Null
    /\ loading' = TRUE
    /\ mounted' = FALSE
    /\ toast' = NoToast
    /\ pending' = <<>>
    /\ lastResponse' = NoResponse
    /\ requestCount' = 0
    /\ lastRequestTime' = 0
    /\ rateLimitReset' = 0
    /\ mockAccounts' = SeedAccounts
    /\ \E draws \in SeedInputs :
          mockTransactions' = GenerateTransactions(draws, now)
    /\ UNCHANGED <<now, localStorage, location>>

-----------------------------------------------------------------------------
(* The clock *)

Tick(d) ==
    /\ now' = now + d
    /\ UNCHANGED <<limiter, ledger, pending, lastResponse, auth>>

-----------------------------------------------------------------------------
(* Specifications *)

\* the state once the modules are loaded and AuthProvider has rendered for the
\* first time, in a browser that holds no session; the log is seeded by one of
\* the given seedings
Loaded(seedings) ==
    /\ now = StartTime
    /\ requestCount = 0
    /\ lastRequestTime = 0
    /\ rateLimitReset = 0
    /\ mockAccounts = SeedAccounts
    /\ \E draws \in seedings :
          mockTransactions = GenerateTransactions(draws, now)
    /\ pending = <<>>
    /\ lastResponse = NoResponse
    /\ invocations = 0
    /\ callTimes = <<>>
    /\ user = Null
    /\ loading = TRUE
    /\ localStorage = EmptyStore
    /\ toast = NoToast
    /\ location = "/"
    /\ mounted = FALSE
    /\ registered = {}
    /\ course = <<>>

Init == Loaded(SeedInputs)

\* as Init, with every seeding the draws allow: seeded records of equal date included
InitQuery == Loaded(TiedSeedInputs)

\* bounds on a run, as guards of the next-state relations
ClockRoom(d, maxElapsed) == now + d <= StartTime + maxElapsed

CallRoom(maxCalls, maxInFlight) ==
    /\ invocations < maxCalls
    /\ CheckRateLimit.admitted => Len(pending) < maxInFlight

TransferRoom(from, to, amount, maxCalls, maxInFlight) ==
    /\ invocations < maxCalls
    /\ (CheckRateLimit.admitted /\ ValidateTransfer(from, to, amount) = "ok")
          => (Len(pending) < maxInFlight /\ TransfersStarted < MaxTransfers)

\* the history variables: a call is counted, and its time is kept with the
\* times of the keep - 1 calls before it
Counted(keep) ==
    /\ invocations' = invocations + 1
    /\ callTimes' = LastN(Append(callTimes, now), keep)
    /\ UNCHANGED <<registered, course>>

NotCounted == UNCHANGED <<invocations, callTimes, registered, course>>

\* the history of the session: an event is kept with the keep - 1 before it
Followed(event, keep) ==
    /\ course' = LastN(Append(course, event), keep)
    /\ UNCHANGED <<invocations, callTimes, registered>>

\* the history of register: the email of an accepted registration is kept
Noted(i) ==
    /\ registered' = IF EmailTaken(pending[i].email) THEN registered
                     ELSE registered \cup {pending[i].email}
    /\ UNCHANGED <<invocations, callTimes, course>>

\* any calls, overlapping or not, with the sampled arguments
Next ==
    \/ \E d \in TickSteps : ClockRoom(d, MaxElapsed) /\ Tick(d) /\ NotCounted
    \/ CallRoom(MaxCalls, MaxInFlight) /\ GetBalance /\ Counted(0)
    \/ \E a \in PageInputs :
          CallRoom(MaxCalls, MaxInFlight) /\ GetTransactions(a[1], a[2]) /\ Counted(0)
    \/ \E a \in RangeInputs :
          CallRoom(MaxCalls, MaxInFlight) /\ GenerateInvoice(a[1], a[2]) /\ Counted(0)
    \/ \E a \in TransferInputs :
          /\ TransferRoom(a[1], a[2], a[3], MaxCalls, MaxInFlight)
          /\ TransferFunds(a[1], a[2], a[3])
          /\ Counted(0)
    \/ \E i \in 1..MaxInFlight : GetBalanceResume(i) /\ NotCounted
    \/ \E i \in 1..MaxInFlight : GetTransactionsResume(i) /\ NotCounted
    \/ \E i \in 1..MaxInFlight, q \in QtyDraws :
          GenerateInvoiceResume(i, q[1], q[2], q[3]) /\ NotCounted
    \/ \E i \in 1..MaxInFlight : TransferFundsResume(i) /\ NotCounted

Spec == Init /\ [][Next]_vars

\* no transfer is suspended: the next transfer starts after the last one ended
NoTransferPending == \A i \in 1..Len(pending) : pending[i].op # "transferFunds"

\* as Next, with the transfers run one at a time
NextSequential ==
    \/ \E d \in TickSteps : ClockRoom(d, MaxElapsed) /\ Tick(d) /\ NotCounted
    \/ CallRoom(MaxCalls, MaxInFlight) /\ GetBalance /\ Counted(0)
    \/ \E a \in PageInputs :
          CallRoom(MaxCalls, MaxInFlight) /\ GetTransactions(a[1], a[2]) /\ Counted(0)
    \/ \E a \in RangeInputs :
          CallRoom(MaxCalls, MaxInFlight) /\ GenerateInvoice(a[1], a[2]) /\ Counted(0)
    \/ \E a \in TransferInputs :
          /\ NoTransferPending
          /\ TransferRoom(a[1], a[2], a[3], MaxCalls, MaxInFlight)
          /\ TransferFunds(a[1], a[2], a[3])
          /\ Counted(0)
    \/ \E i \in 1..MaxInFlight : GetBalanceResume(i) /\ NotCounted
    \/ \E i \in 1..MaxInFlight : GetTransactionsResume(i) /\ NotCounted
    \/ \E i \in 1..MaxInFlight, q \in QtyDraws :
          GenerateInvoiceResume(i, q[1], q[2], q[3]) /\ NotCounted
    \/ \E i \in 1..MaxInFlight : TransferFundsResume(i) /\ NotCounted

SpecSequential == Init /\ [][NextSequential]_vars

\* as Next, with positive amounts only
NextPositive ==
    \/ \E d \in TickSteps : ClockRoom(d, MaxElapsed) /\ Tick(d) /\ NotCounted
    \/ CallRoom(MaxCalls, MaxInFlight) /\ GetBalance /\ Counted(0)
    \/ \E a \in PageInputs :
          CallRoom(MaxCalls, MaxInFlight) /\ GetTransactions(a[1], a[2]) /\ Counted(0)
    \/ \E a \in RangeInputs :
          CallRoom(MaxCalls, MaxInFlight) /\ GenerateInvoice(a[1], a[2]) /\ Counted(0)
    \/ \E a \in PositiveTransferInputs :
          /\ TransferRoom(a[1], a[2], a[3], MaxCalls, MaxInFlight)
          /\ TransferFunds(a[1], a[2], a[3])
          /\ Counted(0)
    \/ \E i \in 1..MaxInFlight : GetBalanceResume(i) /\ NotCounted
    \/ \E i \in 1..MaxInFlight : GetTransactionsResume(i) /\ NotCounted
    \/ \E i \in 1..MaxInFlight, q \in QtyDraws :
          GenerateInvoiceResume(i, q[1], q[2], q[3]) /\ NotCounted
    \/ \E i \in 1..MaxInFlight : TransferFundsResume(i) /\ NotCounted

SpecPositive == Init /\ [][NextPositive]_vars

\* the rate limiter under a clock that crosses the window: more calls, over a
\* longer time, with fewer different arguments; the times of the last Limit
\* calls are kept
NextRate ==
    \/ \E d \in TickStepsRate : ClockRoom(d, MaxElapsedRate) /\ Tick(d) /\ NotCounted
    \/ CallRoom(MaxCallsRate, MaxInFlightRate) /\ GetBalance /\ Counted(Limit)
    \/ \E a \in PageInputs :
          CallRoom(MaxCallsRate, MaxInFlightRate) /\ GetTransactions(a[1], a[2]) /\ Counted(Limit)
    \/ \E a \in RangeInputs :
          CallRoom(MaxCallsRate, MaxInFlightRate) /\ GenerateInvoice(a[1], a[2]) /\ Counted(Limit)
    \/ \E a \in RateTransferInputs :
          /\ TransferRoom(a[1], a[2], a[3], MaxCallsRate, MaxInFlightRate)
          /\ TransferFunds(a[1], a[2], a[3])
          /\ Counted(Limit)
    \/ \E i \in 1..MaxInFlightRate : GetBalanceResume(i) /\ NotCounted
    \/ \E i \in 1..MaxInFlightRate : GetTransactionsResume(i) /\ NotCounted
    \/ \E i \in 1..MaxInFlightRate, q \in QtyDraws :
          GenerateInvoiceResume(i, q[1], q[2], q[3]) /\ NotCounted
    \/ \E i \in 1..MaxInFlightRate : TransferFundsResume(i) /\ NotCounted

SpecRate == Init /\ [][NextRate]_vars

\* the queries: every page of the log as it grows by transfers, from every
\* seeding, and invoices for ranges in either order
NextQuery ==
    \/ \E d \in TickSteps : ClockRoom(d, MaxElapsed) /\ Tick(d) /\ NotCounted
    \/ \E a \in WidePageInputs :
          CallRoom(MaxCallsQuery, MaxInFlight) /\ GetTransactions(a[1], a[2]) /\ Counted(0)
    \/ \E a \in WideRangeInputs :
          CallRoom(MaxCallsQuery, MaxInFlight) /\ GenerateInvoice(a[1], a[2]) /\ Counted(0)
    \/ \E a \in QueryTransferInputs :
          /\ TransferRoom(a[1], a[2], a[3], MaxCallsQuery, MaxInFlight)
          /\ TransferFunds(a[1], a[2], a[3])
          /\ Counted(0)
    \/ \E i \in 1..MaxInFlight : GetTransactionsResume(i) /\ NotCounted
    \/ \E i \in 1..MaxInFlight, q \in QtyDraws :
          GenerateInvoiceResume(i, q[1], q[2], q[3]) /\ NotCounted
    \/ \E i \in 1..MaxInFlight : TransferFundsResume(i) /\ NotCounted

SpecQuery == InitQuery /\ [][NextQuery]_vars

\* the authentication context: logins, registrations, logouts, subscription
\* requests and reloads of the page, in any order and overlapping
AuthRoom == Len(pending) < MaxInFlightAuth

NextAuth ==
    \/ \E d \in TickSteps : ClockRoom(d, MaxElapsedAuth) /\ Tick(d) /\ NotCounted
    \/ CheckAuth /\ NotCounted
    \/ \E a \in LoginInputs : AuthRoom /\ Login(a[1], a[2]) /\ NotCounted
    \/ \E i \in 1..MaxInFlightAuth : LoginResume(i) /\ NotCounted
    \/ \E a \in RegisterInputs : AuthRoom /\ Register(a[1], a[2], a[3]) /\ NotCounted
    \/ \E i \in 1..MaxInFlightAuth : RegisterResume(i) /\ Noted(i)
    \/ Logout /\ NotCounted
    \/ \E tier \in TierInputs : AuthRoom /\ HandleSubscribe(tier) /\ NotCounted
    \/ \E i \in 1..MaxInFlightAuth : HandleSubscribeResume(i) /\ NotCounted
    \/ Restart /\ NotCounted

SpecAuth == Init /\ [][NextAuth]_vars

\* a caller of getBalance that writes to what it was given, between transfers
NextCaller ==
    \/ \E d \in TickSteps : ClockRoom(d, MaxElapsed) /\ Tick(d) /\ NotCounted
    \/ CallRoom(MaxCalls, MaxInFlight) /\ GetBalance /\ Counted(0)
    \/ \E a \in CallerTransferInputs :
          /\ TransferRoom(a[1], a[2], a[3], MaxCalls, MaxInFlight)
          /\ TransferFunds(a[1], a[2], a[3])
          /\ Counted(0)
    \/ \E i \in 1..MaxInFlight : GetBalanceResume(i) /\ NotCounted
    \/ \E i \in 1..MaxInFlight : TransferFundsResume(i) /\ NotCounted
    \/ \E k \in 1..Len(AccountOrder), b \in CallerBalances :
          SetReturnedBalance(k, b) /\ NotCounted
    \/ PopReturned /\ NotCounted

SpecCaller == Init /\ [][NextCaller]_vars

\* transfers, overlapping or not, with balances read in between
NextResult ==
    \/ \E d \in TickSteps : ClockRoom(d, MaxElapsed) /\ Tick(d) /\ NotCounted
    \/ CallRoom(MaxCalls, MaxInFlight) /\ GetBalance /\ Counted(0)
    \/ \E a \in ResultTransferInputs :
          /\ TransferRoom(a[1], a[2], a[3], MaxCalls, MaxInFlight)
          /\ TransferFunds(a[1], a[2], a[3])
          /\ Counted(0)
    \/ \E i \in 1..MaxInFlight : GetBalanceResume(i) /\ NotCounted
    \/ \E i \in 1..MaxInFlight : TransferFundsResume(i) /\ NotCounted

SpecResult == Init /\ [][NextResult]_vars

\* invoices, with quantities from draws at both ends and in the middle of [0, 1)
NextInvoice ==
    \/ \E d \in TickSteps : ClockRoom(d, MaxElapsed) /\ Tick(d) /\ NotCounted
    \/ \E a \in RangeInputs :
          CallRoom(MaxCalls, MaxInFlight) /\ GenerateInvoice(a[1], a[2]) /\ Counted(0)
    \/ \E i \in 1..MaxInFlight, r1 \in RandomDraws, r2 \in RandomDraws, r3 \in RandomDraws :
          LET q == DrawQuantities(r1, r2, r3)
          IN GenerateInvoiceResume(i, q[1], q[2], q[3]) /\ NotCounted

SpecInvoice == Init /\ [][NextInvoice]_vars

\* the service and the authentication context side by side: every operation
\* of both, overlapping, on one timer queue
NextWhole ==
    \/ \E d \in TickSteps : ClockRoom(d, MaxElapsedAuth) /\ Tick(d) /\ NotCounted
    \/ CallRoom(MaxCallsWhole, MaxInFlight) /\ GetBalance /\ Counted(0)
    \/ \E a \in PageInputs :
          CallRoom(MaxCallsWhole, MaxInFlight) /\ GetTransactions(a[1], a[2]) /\ Counted(0)
    \/ \E a \in RangeInputs :
          CallRoom(MaxCallsWhole, MaxInFlight) /\ GenerateInvoice(a[1], a[2]) /\ Counted(0)
    \/ \E a \in CallerTransferInputs :
          /\ TransferRoom(a[1], a[2], a[3], MaxCallsWhole, MaxInFlight)
          /\ TransferFunds(a[1], a[2], a[3])
          /\ Counted(0)
    \/ \E i \in 1..MaxInFlight : GetBalanceResume(i) /\ NotCounted
    \/ \E i \in 1..MaxInFlight : GetTransactionsResume(i) /\ NotCounted
    \/ \E i \in 1..MaxInFlight, q \in QtyDraws :
          GenerateInvoiceResume(i, q[1], q[2], q[3]) /\ NotCounted
    \/ \E i \in 1..MaxInFlight : TransferFundsResume(i) /\ NotCounted
    \/ CheckAuth /\ NotCounted
    \/ \E a \in WholeLoginInputs :
          Len(pending) < MaxInFlight /\ Login(a[1], a[2]) /\ NotCounted
    \/ \E i \in 1..MaxInFlight : LoginResume(i) /\ NotCounted
    \/ \E a \in WholeRegisterInputs :
          Len(pending) < MaxInFlight /\ Register(a[1], a[2], a[3]) /\ NotCounted
    \/ \E i \in 1..MaxInFlight : RegisterResume(i) /\ Noted(i)
    \/ Logout /\ NotCounted
    \/ \E tier \in TierInputs :
          Len(pending) < MaxInFlight /\ HandleSubscribe(tier) /\ NotCounted
    \/ \E i \in 1..MaxInFlight : HandleSubscribeResume(i) /\ NotCounted

SpecWhole == Init /\ [][NextWhole]_vars

\* sessions of the known users: logins, subscription requests, logouts and
\* reloads, with the course of the session kept
NextRelogin ==
    \/ \E d \in TickSteps : ClockRoom(d, MaxElapsedRelogin) /\ Tick(d) /\ NotCounted
    \/ CheckAuth /\ NotCounted
    \/ \E a \in ReloginInputs : AuthRoom /\ Login(a[1], a[2]) /\ NotCounted
    \/ \E i \in 1..MaxInFlightAuth :
          /\ LoginResume(i)
          /\ IF FindUser(pending[i].email, pending[i].password) = Null
             THEN NotCounted ELSE Followed("login", 3)
    \/ Logout /\ Followed("logout", 3)
    \/ \E tier \in TierInputs : AuthRoom /\ HandleSubscribe(tier) /\ NotCounted
    \/ \E i \in 1..MaxInFlightAuth :
          /\ HandleSubscribeResume(i)
          /\ IF pending[i].seen = Null THEN NotCounted ELSE Followed("update", 3)
    \/ Restart /\ NotCounted

SpecRelogin == Init /\ [][NextRelogin]_vars

-----------------------------------------------------------------------------
(* Properties *)

\* kinds of step, read off the state
IsCall == invocations' = invocations + 1
Thrown == IsCall /\ pending' = pending
Resumed == Len(pending') < Len(pending)
Settled == Thrown \/ Resumed
\* this step is a call that the rate limiter rejected
RateLimited ==
    /\ Thrown
    /\ ~lastResponse'.ok
    /\ lastResponse'.error = RateLimitError

TotalBalance == mockAccounts["acc-1"].balance + mockAccounts["acc-2"].balance

FailedTransfer(r) == r.op = "transferFunds" /\ ~r.ok
DoneTransfer(r) == r.op = "transferFunds" /\ r.ok

\* C1: conservation. In every reachable state the balances of all accounts
\* add up to the seeded total, whatever calls were made and however they
\* overlapped.
Conservation == TotalBalance = CheckingSeed + SavingsSeed

\* C2: non-negativity. When the transfers run one at a time, then whatever
\* their arguments no balance is negative once the last of them has ended.
NonNegativeSequential ==
    NoTransferPending => \A id \in AccountIds : mockAccounts[id].balance >= 0

\* C3: the ledger invariant under concurrent callers. With positive amounts
\* only and transfers in flight at the same time, no balance is negative in
\* any reachable state.
NonNegativeConcurrent == \A id \in AccountIds : ~(mockAccounts[id].balance < 0)

\* C4: pairing. A step changes the log exactly when it completes a successful
\* transfer, and then it puts exactly two records in front of the old log: a
\* debit described as a transfer to the destination account and a credit
\* described as a transfer from the source account, both of the transferred
\* amount, with the same date and the same correlation id.
Pairing ==
    [][ LET r == lastResponse'
            old == mockTransactions
            new == mockTransactions'
            n == Len(old)
        IN (new # old \/ (Resumed /\ DoneTransfer(r))) =>
              /\ Resumed
              /\ DoneTransfer(r)
              /\ Len(new) = n + 2
              /\ SubSeq(new, 3, n + 2) = old
              /\ \E d \in 1..2 : \E c \in 1..2 :
                    /\ new[d].type = "debit" /\ new[d].id.leg = "debit"
                    /\ new[c].type = "credit" /\ new[c].id.leg = "credit"
                    /\ new[d].amount = r.amount /\ new[c].amount = r.amount
                    /\ new[d].date = new[c].date
                    /\ new[d].id.n = new[c].id.n
                    /\ new[d].description =
                          [text |-> "Transfer to", party |-> mockAccounts[r.to].name]
                    /\ new[c].description =
                          [text |-> "Transfer from", party |-> mockAccounts[r.from].name]
      ]_vars

\* a transfer between the two accounts has completed and its two records are in the log
PairingWitness ==
    /\ DoneTransfer(lastResponse)
    /\ lastResponse.from # lastResponse.to
    /\ Len(mockTransactions) = SeedCount + 2

\* C5: all-or-nothing. A transferFunds call that fails, whether by the rate
\* limit, an unknown account or insufficient funds, leaves every balance and
\* the log as they were before the call.
AllOrNothing ==
    [][ (Settled /\ FailedTransfer(lastResponse')) => UNCHANGED ledger ]_vars

\* a transfer has failed for insufficient funds
AllOrNothingWitness ==
    /\ FailedTransfer(lastResponse)
    /\ lastResponse.error = InsufficientError
    /\ lastResponse.amount > mockAccounts[lastResponse.from].balance

\* C6: a transfer from an account to itself fails: it does not report
\* success, changes no balance and adds nothing to the log.
SameAccountRejected ==
    [][ ( /\ Settled
          /\ lastResponse'.op = "transferFunds"
          /\ lastResponse'.from = lastResponse'.to
          /\ lastResponse'.from \in AccountIds )
        => (~lastResponse'.ok /\ UNCHANGED ledger) ]_vars

\* C7: a transfer of a zero or negative amount fails: it does not report
\* success, changes no balance and adds nothing to the log.
NonPositiveAmountRejected ==
    [][ ( /\ Settled
          /\ lastResponse'.op = "transferFunds"
          /\ lastResponse'.amount <= 0 )
        => (~lastResponse'.ok /\ UNCHANGED ledger) ]_vars

\* C8: rate limiting. A call that comes within one minute of the tenth call
\* before it (so that eleven calls, of whatever operations, fall within 60
\* seconds) fails with the rate-limit error; and a call that resets the
\* counter, leaving it at one, is admitted.
EleventhCallRejected ==
    [][ IsCall =>
          /\ (Len(callTimes) = Limit /\ now - callTimes[1] <= Window) => RateLimited
          /\ requestCount' = 1 => ~RateLimited ]_vars

\* the eleventh call of eleven within the window has just been rejected
EleventhCallWitness ==
    /\ Len(callTimes) = Limit
    /\ now - callTimes[1] <= Window
    /\ invocations = Limit + 1
    /\ requestCount = Limit + 1
    /\ ~lastResponse.ok
    /\ lastResponse.error = RateLimitError

\* C9: window reset. A call that arrives more than one minute after the
\* current window started resets the counter before it is counted, so the
\* counter is one afterwards and the call is admitted.
WindowReset ==
    [][ (IsCall /\ now > rateLimitReset) => (requestCount' = 1 /\ ~RateLimited) ]_vars

\* C10: every operation consults the rate limiter exactly once, at its
\* invocation: every call counts, also one that is rejected or fails
\* validation; a call that takes the counter above the limit fails with the
\* rate-limit error, returns no data and changes nothing else; and no later
\* step of an operation touches the limiter.
LimiterFirst ==
    [][ /\ IsCall =>
            /\ requestCount' = requestCount + 1 \/ requestCount' = 1
            /\ lastRequestTime' = now
            /\ requestCount' > Limit =>
                  /\ RateLimited
                  /\ ~lastResponse'.hasData
                  /\ UNCHANGED <<ledger, pending>>
            /\ requestCount' <= Limit => ~RateLimited
        /\ ~IsCall => UNCHANGED limiter ]_vars

\* a transfer to an unknown account was rejected by the rate limiter, before
\* its validation, and was counted all the same
LimiterFirstWitness ==
    /\ requestCount = Limit + 1
    /\ lastResponse.op = "transferFunds"
    /\ lastResponse.from \notin AccountIds
    /\ ~lastResponse.ok
    /\ lastResponse.error = RateLimitError
    /\ ~lastResponse.hasData

-----------------------------------------------------------------------------
(* Properties of the authentication context *)

\* this step resumes the suspended request at position i
Completes(i) ==
    /\ mounted /\ mounted'
    /\ i \in 1..Len(pending)
    /\ pending' = Remove(pending, i)

\* the pair is one of the fixed credential set
Matches(email, password) ==
    \E n \in 1..Len(MOCK_USERS) :
        MOCK_USERS[n].email = email /\ MOCK_USERS[n].password = password

\* this step resumes a login whose credentials match / match no record
LoginSucceeds ==
    \E i \in 1..Len(pending) :
        /\ Completes(i) /\ pending[i].op = "login"
        /\ Matches(pending[i].email, pending[i].password)
LoginFails ==
    \E i \in 1..Len(pending) :
        /\ Completes(i) /\ pending[i].op = "login"
        /\ ~Matches(pending[i].email, pending[i].password)

\* this step loads the page again / runs the startup check
Restarts == mounted' = FALSE /\ (mounted \/ pending' # pending \/ toast' # toast)
StartsUp == ~mounted /\ mounted'

\* the records of the credential set without their passwords
KnownUsers ==
    {[k \in DOMAIN MOCK_USERS[n] \ {"password"} |-> MOCK_USERS[n][k]] : n \in 1..Len(MOCK_USERS)}

\* C11: session round trip. A successful login sets the current user to the
\* matched record without its password and leaves a session in the store
\* from which a restart restores that very user: the reload keeps the store
\* and resets the user to null, and the startup check that follows reads the
\* stored user back, with checkToken() true.
SessionRoundTrip ==
    [][ /\ LoginSucceeds =>
              /\ user' \in KnownUsers
              /\ HasItem(localStorage', TokenKey)
              /\ HasItem(localStorage', UserKey)
              /\ JSONParse(localStorage'[UserKey]) = user'
        /\ Restarts => (localStorage' = localStorage /\ user' = Null)
        /\ (StartsUp /\ HasItem(localStorage, TokenKey) /\ HasItem(localStorage, UserKey)) =>
              /\ CheckToken'
              /\ localStorage' = localStorage
              /\ user' = JSONParse(localStorage[UserKey])
              /\ JSONStringify(user') = localStorage[UserKey] ]_vars

\* after a login as the demo user and a reload, the startup check has
\* restored the user of the login
SessionRoundTripWitness ==
    /\ mounted
    /\ toast = NoToast
    /\ CheckToken
    /\ user = [id |-> "user-1", email |-> "demo@example.com", name |-> "Demo User",
               role |-> "user", isSubscribed |-> FALSE]

\* C12: layout of the session in the store. In every reachable state the
\* token entry and the user entry are both present or both absent, whatever
\* logins, registrations, logouts and subscription requests ran and however
\* they overlapped.
SessionLayout == HasItem(localStorage, TokenKey) <=> HasItem(localStorage, UserKey)

\* C13: no token means logged out. In every reachable state after startup,
\* when the store holds no token the current user is null; so after a logout
\* the user stays null until a login succeeds, also when a subscription
\* request that began before the logout ends after it.
NoTokenNoUser == (mounted /\ ~CheckToken) => user = Null

InvalidCredentials == Toast("Login failed", "Invalid credentials", "destructive")

\* C14: a login whose email and password match no record of the credential
\* set reports invalid credentials and establishes no session: it writes
\* nothing to the store, leaves the current user as it was, and the loading
\* flag is false again.
LoginRejected ==
    [][ LoginFails =>
            /\ toast' = InvalidCredentials
            /\ localStorage' = localStorage
            /\ user' = user
            /\ loading' = FALSE ]_vars

\* a login with a wrong password has failed in a browser that holds no session
LoginRejectedWitness ==
    /\ mounted
    /\ toast = InvalidCredentials
    /\ user = Null
    /\ localStorage = EmptyStore
    /\ ~loading
    /\ pending = <<>>

\* the emails of the fixed credential set
KnownEmails == {MOCK_USERS[n].email : n \in 1..Len(MOCK_USERS)}

EmailAlreadyRegistered ==
    Toast("Registration failed", "Email already registered", "destructive")

\* this step calls register / resumes the register at position i
RegisterStarts ==
    /\ Len(pending') = Len(pending) + 1
    /\ pending'[Len(pending')].op = "register"
RegisterCompletes(i) == Completes(i) /\ pending[i].op = "register"

\* C15: register never authenticates. Neither its call nor its completion
\* changes the current user or the store, whether it succeeds or fails (the
\* credential set is a constant of the program); it fails, with 'Email
\* already registered', exactly when the email is in the credential set; and
\* a later login with an email that register accepted still fails with
\* invalid credentials.
RegisterNeverAuthenticates ==
    [][ /\ RegisterStarts => UNCHANGED <<user, localStorage>>
        /\ \A i \in 1..Len(pending) :
              RegisterCompletes(i) =>
                  /\ UNCHANGED <<user, localStorage>>
                  /\ (toast' = EmailAlreadyRegistered) <=> (pending[i].email \in KnownEmails)
                  /\ toast'.variant = "destructive" <=> (pending[i].email \in KnownEmails)
        /\ \A i \in 1..Len(pending) :
              (Completes(i) /\ pending[i].op = "login" /\ pending[i].email \in registered) =>
                  /\ toast' = InvalidCredentials
                  /\ UNCHANGED <<user, localStorage>> ]_vars

\* a registration was accepted and a login after it has failed: nobody is
\* logged in and the store is empty
RegisterNeverAuthenticatesWitness ==
    /\ registered = {"new@example.com"}
    /\ toast = InvalidCredentials
    /\ user = Null
    /\ localStorage = EmptyStore

LoggedOut == Toast("Logged out", "You have been successfully logged out.", "")

\* this step is a logout: the only step that shows its toast and neither
\* starts nor resumes a request
LogsOut ==
    /\ mounted /\ mounted'
    /\ toast' = LoggedOut
    /\ pending' = pending
    /\ now' = now
    /\ (toast # LoggedOut \/ user # Null \/ localStorage' # localStorage)

\* C16: logout is unconditional. Once the provider is mounted logout can run
\* in every state, whoever is logged in and whatever requests are in flight;
\* its step removes both entries of the store and sets the current user to
\* null, with no error shown, and right after it checkToken() is false.
LogoutUnconditional ==
    [][ /\ mounted => ENABLED Logout
        /\ LogsOut =>
              /\ ~HasItem(localStorage', TokenKey)
              /\ ~HasItem(localStorage', UserKey)
              /\ user' = Null
              /\ toast'.variant # "destructive"
              /\ ~CheckToken' ]_vars

\* logout has run on a logged-in user while a subscription request of that
\* user was in flight
LogoutUnconditionalWitness ==
    /\ toast = LoggedOut
    /\ user = Null
    /\ localStorage = EmptyStore
    /\ Len(pending) = 1
    /\ pending[1].op = "subscribe"
    /\ pending[1].seen # Null

\* C17: updateSubscription(tier). When a user is logged in at the moment of
\* the call, afterwards the current user and the stored user are that user
\* with isSubscribed true, the tier asked for and an expiry 30 days after
\* now, id, email, name and role as before, and the token is untouched; when
\* nobody is logged in, the call changes neither the memory nor the store.
SubscriptionUpdate ==
    [][ \A i \in 1..Len(pending) :
          (Completes(i) /\ pending[i].op = "subscribe") =>
              IF user # Null
              THEN /\ user'.isSubscribed = TRUE
                   /\ user'.subscriptionTier = pending[i].tier
                   /\ user'.subscriptionExpiresAt =
                         IsoTime(now \div DayMs + 30, now % DayMs)
                   /\ \A k \in {"id", "email", "name", "role"} : user'[k] = user[k]
                   /\ HasItem(localStorage', UserKey)
                   /\ JSONParse(localStorage'[UserKey]) = user'
                   /\ HasItem(localStorage', TokenKey) <=> HasItem(localStorage, TokenKey)
                   /\ HasItem(localStorage, TokenKey) =>
                         localStorage'[TokenKey] = localStorage[TokenKey]
              ELSE UNCHANGED <<user, localStorage>> ]_vars

-----------------------------------------------------------------------------
(* Properties of the queries *)

Min(a, b) == IF a < b THEN a ELSE b
Max(a, b) == IF a > b THEN a ELSE b

\* C18: pagination. A getTransactions(page, pageSize) that completes returns
\* the length of the log as total and, as data, the records of the log from
\* index (page - 1) * pageSize on, up to pageSize of them and as many as the
\* log has: min(pageSize, max(0, total - (page - 1) * pageSize)) records, none
\* for a page beyond the end.
Pagination ==
    [][ (Resumed /\ lastResponse'.op = "getTransactions") =>
          LET r == lastResponse'
              total == Len(mockTransactions)
              start == (r.page - 1) * r.pageSize
              n == Min(r.pageSize, Max(0, total - start))
          IN /\ r.ok
             /\ r.data.total = total
             /\ Len(r.data.data) = n
             /\ \A k \in 1..n : r.data.data[k] = mockTransactions[start + k]
             /\ start >= total => r.data.data = <<>> ]_vars

\* the second page of three records has been read from a log that one
\* transfer has extended: it is the short last page
PaginationWitness ==
    /\ lastResponse.op = "getTransactions"
    /\ lastResponse.ok
    /\ lastResponse.page = 2
    /\ lastResponse.pageSize = 3
    /\ lastResponse.data.total = SeedCount + 2
    /\ Len(lastResponse.data.data) = SeedCount - 1
    /\ Len(mockTransactions) = SeedCount + 2

\* a seeded record (made by generateTransactions) / a record of a transfer
IsSeed(t) == t.id.leg = ""

\* record a entered the log after record b, as far as the records tell: a
\* seeded record after the seeded records of lower number, a transfer's
\* record after every seeded record and after the records of earlier
\* transfers
InsertedAfter(a, b) ==
    IF IsSeed(a) THEN IsSeed(b) /\ a.id.n > b.id.n
    ELSE IsSeed(b) \/ a.id.n >= b.id.n

\* C19 as stated: in every reachable state the log is ordered newest first by
\* date, and of two records of equal date the one inserted later comes first.
LogOrderByInsertion ==
    \A j \in 1..Len(mockTransactions) : \A k \in 1..Len(mockTransactions) :
        j < k =>
            \/ mockTransactions[j].date > mockTransactions[k].date
            \/ /\ mockTransactions[j].date = mockTransactions[k].date
               /\ InsertedAfter(mockTransactions[j], mockTransactions[k])

\* the dates of a log never rise from front to back, and seeded records of
\* equal date stand in the order they were generated in
NewestFirst(log) ==
    \A j \in 1..Len(log) : \A k \in 1..Len(log) :
        j < k =>
            /\ log[j].date >= log[k].date
            /\ (log[j].date = log[k].date /\ IsSeed(log[j]) /\ IsSeed(log[k]))
                  => log[j].id.n < log[k].id.n

\* C19 as amended: in every reachable state the log is ordered newest first by
\* date; a step that changes the log puts the two records of a transfer,
\* credit first, in front of all the records it held, so that among equal
\* dates the records of transfers stand most recently inserted first and
\* before the seeded ones; seeded records of equal date keep the order of
\* their generation (lower number first).
LogOrder ==
    [][ /\ NewestFirst(mockTransactions)
        /\ NewestFirst(mockTransactions')
        /\ mockTransactions' # mockTransactions =>
              /\ Len(mockTransactions') = Len(mockTransactions) + 2
              /\ SubSeq(mockTransactions', 3, Len(mockTransactions')) = mockTransactions
              /\ mockTransactions'[1].id.leg = "credit"
              /\ mockTransactions'[2].id.leg = "debit"
              /\ ~IsSeed(mockTransactions'[1]) /\ ~IsSeed(mockTransactions'[2]) ]_vars

\* two seeded records have the same date, and two transfers that ended in the
\* same millisecond have put their four records, of one date, in front of them
LogOrderWitness ==
    /\ Len(mockTransactions) = SeedCount + 4
    /\ mockTransactions[1].date = mockTransactions[4].date
    /\ IsSeed(mockTransactions[Len(mockTransactions)])
    /\ mockTransactions[Len(mockTransactions)].date
          = mockTransactions[Len(mockTransactions) - 1].date

\* C20: a generateInvoice(startDate, endDate) with startDate later than
\* endDate fails: it returns no invoice.
InvertedRangeRejected ==
    [][ ( /\ Settled
          /\ lastResponse'.op = "generateInvoice"
          /\ lastResponse'.from > lastResponse'.to )
        => (~lastResponse'.ok /\ ~lastResponse'.hasData) ]_vars

-----------------------------------------------------------------------------
(* The snapshot of getBalance *)

\* a step of the holder of the list that getBalance returned: no call is made,
\* no suspended call resumes and the clock stands still
CallerStep ==
    /\ lastResponse.op = "getBalance"
    /\ lastResponse.ok
    /\ invocations' = invocations
    /\ pending' = pending
    /\ now' = now

\* C21: what the holder of the list returned by getBalance does to the list or
\* to an Account in it changes no balance of the ledger, so neither what a
\* later transferFunds validates against nor what a later getBalance returns.
SnapshotIsolated == [][CallerStep => mockAccounts' = mockAccounts]_vars

-----------------------------------------------------------------------------
(* The routes *)

\* C22: a route that requires a subscription shows a spinner while loading is
\* true; otherwise it redirects to /login without a stored token, to /pricing
\* with a token and a user that is absent or not subscribed, and renders its
\* page exactly when a token is stored and the user is subscribed.
SubscriptionGating ==
    /\ \A path \in GatedRoutes :
          LET shown == Render(path)
              token == HasItem(localStorage, TokenKey)
              subscribed == user # Null /\ user.isSubscribed = TRUE
          IN /\ loading => shown = Spinner
             /\ (~loading /\ ~token) => shown = Navigate("/login")
             /\ (~loading /\ token /\ ~subscribed) => shown = Navigate("/pricing")
             /\ shown = Children <=> (~loading /\ token /\ subscribed)
    /\ ProtectedRoute(FALSE, TRUE, Null, TRUE, FALSE) = Navigate("/pricing")

\* the demo user, logged in and subscribed, is shown the balance page
SubscriptionGatingWitness ==
    /\ mounted
    /\ ~loading
    /\ CheckToken
    /\ user # Null
    /\ user.id = "user-1"
    /\ user.isSubscribed
    /\ Render("/dashboard/balance") = Children

-----------------------------------------------------------------------------
(* The result of a transfer *)

\* v is x to two decimals: a whole number of cents, at most half a cent from x
Rounded2(v, x) == v % Cent = 0 /\ 2 * Abs(v - x) <= Cent

\* a suspended call of the operation resumes in this step
Finishes(op) ==
    \E i \in 1..Len(pending) : pending[i].op = op /\ pending' = Remove(pending, i)

\* the call that resumes in this step
Finished == pending[CHOOSE i \in 1..Len(pending) : pending' = Remove(pending, i)]

\* C23: a transfer of a positive amount between two distinct accounts that
\* passed its checks returns success = true, leaves the source at its old
\* balance minus the amount and the destination at its old balance plus the
\* amount, to two decimals (exactly, for an amount in whole cents), and leaves
\* the set of accounts and their names alone; a transfer of the whole source
\* balance leaves the source at 0; 100 from 5245.75 to 12735.40 gives 5145.75
\* and 12835.40.
TransferResultExact ==
    [][ (Finishes("transferFunds") /\ Finished.from # Finished.to /\ Finished.amount > 0) =>
          LET c == Finished
              old == mockAccounts
              new == mockAccounts'
          IN /\ lastResponse'.ok
             /\ lastResponse'.op = "transferFunds"
             /\ lastResponse'.data.success = TRUE
             /\ Rounded2(new[c.from].balance, old[c.from].balance - c.amount)
             /\ Rounded2(new[c.to].balance, old[c.to].balance + c.amount)
             /\ (c.amount % Cent = 0 /\ old[c.from].balance % Cent = 0 /\ old[c.to].balance % Cent = 0) =>
                   /\ new[c.from].balance = old[c.from].balance - c.amount
                   /\ new[c.to].balance = old[c.to].balance + c.amount
             /\ DOMAIN new = DOMAIN old
             /\ \A id \in DOMAIN old :
                   /\ new[id].name = old[id].name
                   /\ id \notin {c.from, c.to} => new[id] = old[id]
             /\ c.amount = old[c.from].balance => new[c.from].balance = 0
             /\ (c.amount = 100000 /\ old[c.from].balance = 5245750 /\ old[c.to].balance = 12735400) =>
                   (new[c.from].balance = 5145750 /\ new[c.to].balance = 12835400)
      ]_vars

\* the whole balance of the checking account has been transferred
TransferResultWitness ==
    /\ DoneTransfer(lastResponse)
    /\ lastResponse.from = "acc-1"
    /\ lastResponse.to = "acc-2"
    /\ lastResponse.amount = CheckingSeed
    /\ mockAccounts["acc-1"].balance = 0
    /\ mockAccounts["acc-2"].balance = SavingsSeed + CheckingSeed

-----------------------------------------------------------------------------
(* The invoice *)

\* C24: every invoice that generateInvoice returns has four items in a fixed
\* order (API calls 100..599 at 0.01, premium access 1 at 29.99, storage 5..24
\* at 0.50, support requests 0..4 at 15), each amount is quantity times unit
\* price in whole cents, the total is the sum of the four amounts and the
\* status is pending.
InvoiceArithmetic ==
    [][ Finishes("generateInvoice") =>
          LET inv == lastResponse'.data
              it == inv.items
          IN /\ lastResponse'.ok
             /\ Len(it) = 4
             /\ it[1].description = "API Calls - Basic Tier"
             /\ it[1].quantity \in 100..599 /\ it[1].unitPrice = 10
             /\ it[2].description = "Premium Features Access"
             /\ it[2].quantity = 1 /\ it[2].unitPrice = 29990
             /\ it[3].description = "Data Storage (GB)"
             /\ it[3].quantity \in 5..24 /\ it[3].unitPrice = 500
             /\ it[4].description = "Support Requests"
             /\ it[4].quantity \in 0..4 /\ it[4].unitPrice = 15000
             /\ \A k \in 1..4 :
                   /\ it[k].amount = it[k].quantity * it[k].unitPrice
                   /\ it[k].amount % Cent = 0
             /\ inv.total = it[1].amount + it[2].amount + it[3].amount + it[4].amount
             /\ inv.status = "pending"
      ]_vars

\* an invoice with the largest quantities: 599 calls, 24 GB, 4 requests
InvoiceArithmeticWitness ==
    /\ lastResponse.op = "generateInvoice"
    /\ lastResponse.ok
    /\ lastResponse.data.items[1].quantity = 599
    /\ lastResponse.data.items[3].quantity = 24
    /\ lastResponse.data.items[4].quantity = 4
    /\ lastResponse.data.total = 107980

-----------------------------------------------------------------------------
(* The frame of the ledger *)

\* C25: the ledger keeps its set of account ids and their names in every
\* step, and a balance changes only in the step in which a transfer resumes
\* after its delay: getBalance, getTransactions, generateInvoice, login,
\* register, logout and updateSubscription leave every balance alone.
LedgerFrame ==
    [][ /\ DOMAIN mockAccounts' = DOMAIN mockAccounts
        /\ DOMAIN mockAccounts' = AccountIds
        /\ \A id \in AccountIds : mockAccounts'[id].name = mockAccounts[id].name
        /\ mockAccounts' # mockAccounts => Finishes("transferFunds")
      ]_vars

\* a user has logged in and subscribed, an invoice has been returned, and the
\* ledger is as seeded
LedgerFrameWitness ==
    /\ user # Null
    /\ lastResponse.op = "generateInvoice"
    /\ lastResponse.ok
    /\ user.isSubscribed
    /\ toast.title = "Subscription updated"
    /\ invocations = MaxCallsWhole
    /\ mockAccounts = SeedAccounts

-----------------------------------------------------------------------------
(* Token, stored user and current user *)

\* the payload of a token: JSON.parse(atob(token))
TokenPayload(token) == JSONParse(token.base64)

\* a user record carries the id, email and role of a token payload
SameIdentity(u, t) == u # Null /\ u.id = t.id /\ u.email = t.email /\ u.role = t.role

\* C26: once the startup check has run, whenever a token is stored, the id,
\* email and role in it are those of the stored user record and of the
\* current user.
TokenAgrees ==
    (mounted /\ HasItem(localStorage, TokenKey)) =>
        LET t == TokenPayload(localStorage[TokenKey])
        IN /\ HasItem(localStorage, UserKey)
           /\ SameIdentity(JSONParse(localStorage[UserKey]), t)
           /\ SameIdentity(user, t)

-----------------------------------------------------------------------------
(* Memory and store *)

\* the current user is the one the user entry of the store deserializes to
StoredIsCurrent ==
    /\ HasItem(localStorage, UserKey)
    /\ JSONParse(localStorage[UserKey]) = user

\* the user that the startup check of a reloaded page sets
Reloaded ==
    IF HasItem(localStorage, TokenKey) /\ HasItem(localStorage, UserKey)
    THEN JSONParse(localStorage[UserKey])
    ELSE Null

\* C27: once the startup check has run, whenever the current user is not
\* null the user entry of the store deserializes to a record equal to it, and
\* a reload at that moment restores that user.
MemoryIsStored ==
    (mounted /\ user # Null) => (StoredIsCurrent /\ Reloaded = user)

-----------------------------------------------------------------------------
(* Transaction ids *)

\* C28: no two records of the transaction log have the same id, the records
\* of two transfers that complete at the same clock value included.
UniqueIds ==
    \A j \in 1..Len(mockTransactions) : \A k \in 1..Len(mockTransactions) :
        j # k => mockTransactions[j].id # mockTransactions[k].id

-----------------------------------------------------------------------------
(* The rate limiter counts from the last call *)

\* the call of this step comes within one minute of the call before it
Chained == Len(callTimes) > 0 /\ now - callTimes[Len(callTimes)] <= Window

\* each of the remembered calls came within one minute of the one before it
AllChained(times) ==
    \A k \in 1..(Len(times) - 1) : times[k + 1] - times[k] <= Window

-----------------------------------------------------------------------------
(* Login after a subscription *)

\* the record of the fixed credential set with the email, without its password
FixedRecord(email) ==
    LET u == MOCK_USERS[CHOOSE n \in 1..Len(MOCK_USERS) : MOCK_USERS[n].email = email]
    IN [k \in DOMAIN u \ {"password"} |-> u[k]]

====
